---------------------------- MODULE Spec2Model ----------------------------
(***************************************************************************)
(* Model of Analysis/process_videos.py: the frame sampler (extract_frames), *)
(* the audio extractor (extract_audio), the transcriber (transcribe_audio)  *)
(* and the run orchestrator (main), with the files they write.              *)
(*                                                                          *)
(* Numbers that are floats in the program (frame rates, sampling rates,     *)
(* timestamps) are exact rationals [n |-> numerator, d |-> denominator].    *)
(* The values drawn for them are dyadic, so the float arithmetic of the     *)
(* program is exact on them.                                                *)
(***************************************************************************)
EXTENDS Integers, Sequences, FiniteSets, TLC

(***************************************************************************)
(* Bounds of the model.                                                     *)
(***************************************************************************)
\* Longest decoded frame stream of the small sources.
MaxFrames == 4
\* Calls a harness makes of extract_frames / extract_audio.
MaxCalls == 2
\* Most segments of a transcription result.
MaxSegs == 2

(***************************************************************************)
(* Configuration (lines 19-43).  File names are [stem, suffix].             *)
(***************************************************************************)
VIDEOS ==
    << [name |-> "video1_zvl_rev_rate",
        file |-> [stem |-> "FIND YOUR REV RATE", suffix |-> ".mp4"],
        title |-> "ZVL Bowling - Find Your Rev Rate"],
       [name |-> "video2_joshua_review",
        file |-> [stem |-> "LaneTrax Bowling App Review", suffix |-> ".mp4"],
        title |-> "Joshua Tajiri - LaneTrax App Review"],
       [name |-> "video3_zvl_specto",
        file |-> [stem |-> "SPECTO AS AN APP Lanetrax", suffix |-> ".mp4"],
        title |-> "ZVL Bowling - Specto as an App" ] >>

NumVideos == Len(VIDEOS)
Names == {VIDEOS[k].name : k \in 1..NumVideos}
Stems == {VIDEOS[k].file.stem : k \in 1..NumVideos}

\* The python value None; a path with nothing at it, and a file with content.
None == [none |-> TRUE]
Absent == [exists |-> FALSE]
File(content) == [exists |-> TRUE, content |-> content]

(***************************************************************************)
(* Arithmetic of the program on exact rationals.                            *)
(***************************************************************************)
Rat(n, d) == [n |-> n, d |-> d]

\* int(x / y) for x, y >= 0, y # 0: truncation.
IntDiv(x, y) == (x.n * y.d) \div (x.d * y.n)

\* round(a / b) of python 3 for a >= 0, b > 0: to nearest, ties to even.
RoundHalfEven(a, b) ==
    LET q == a \div b
        r == a % b
    IN  IF 2 * r < b THEN q
        ELSE IF 2 * r > b THEN q + 1
        ELSE IF q % 2 = 0 THEN q ELSE q + 1

\* f"{timestamp:.1f}" with timestamp = frame_count / fps: tenths of a second.
FormatTenths(frame_count, fps) == RoundHalfEven(10 * frame_count * fps.d, fps.n)

\* f"frame_{saved_count:04d}_t{timestamp:.1f}s.jpg"
FrameFilename(saved_count, frame_count, fps) ==
    [seq |-> saved_count, t |-> FormatTenths(frame_count, fps)]

(***************************************************************************)
(* State.                                                                   *)
(*   pc                 position of the single thread of control            *)
(*   i                  enumerate() index of the job main is at (line 211)  *)
(*   source             what is at video_path: Absent, or the video the     *)
(*                      decoder sees [exists, opens, fps, frames]           *)
(*   fps_sample         extract_frames' argument                            *)
(*   cap .. extracted_frames   extract_frames' locals                       *)
(*   frames, audio_file, transcript, results   main's locals                *)
(*   dirs               FRAMES_DIR/<name>: [exists, jpgs, index]            *)
(*   wav, txt, json     TRANSCRIPTS_DIR/<stem>.wav, _transcript.txt, .json  *)
(*   summary_file       ANALYSIS_DIR/analysis_summary.json                  *)
(*   raised             the exception that ended the process, or None       *)
(* History of the run (not read by the program):                            *)
(*   trace              in order: the calls, returns and raises of the      *)
(*                      three stages, the transcoder's exits, the jobs      *)
(*                      skipped, the sources not opened, the WAVs reused    *)
(*                      and the write of the summary                        *)
(*   ffmpeg_runs        subprocess.run invocations per output stem          *)
(*   summary_writes     writes of the summary file by this process          *)
(*   calls              calls made by a harness                             *)
(***************************************************************************)
VARIABLES pc, i, source, fps_sample, cap, duration, frame_interval,
          frame_count, saved_count, extracted_frames, frames, audio_file,
          transcript, results, dirs, wav, txt, json, summary_file, raised,
          trace, ffmpeg_runs, summary_writes, calls

vars == << pc, i, source, fps_sample, cap, duration, frame_interval,
           frame_count, saved_count, extracted_frames, frames, audio_file,
           transcript, results, dirs, wav, txt, json, summary_file, raised,
           trace, ffmpeg_runs, summary_writes, calls >>

ef_locals == << cap, duration, frame_interval, frame_count, saved_count,
                extracted_frames >>
main_locals == << frames, audio_file, transcript, results >>
files == << dirs, wav, txt, json, summary_file >>

\* video_info of the current iteration, and the paths derived from it.
video_info == VIDEOS[i]
video_name == video_info.name
stem == video_info.file.stem

Ev(kind, fn, name) == [kind |-> kind, fn |-> fn, job |-> name]

\* An uncaught exception: the interpreter unwinds every frame and exits.
Raise(type, fn, line) ==
    /\ raised' = [type |-> type, fn |-> fn, line |-> line]
    /\ pc' = "raised"
    /\ trace' = Append(trace, Ev("raise", fn, video_name))

(***************************************************************************)
(* extract_frames (lines 83-147).                                           *)
(***************************************************************************)
\* line 97: total_frames / fps
Duration(total_frames, fps) == Rat(total_frames * fps.d, fps.n)

\* A faulty variant of FrameInterval: the quotient rounded, not truncated.
FrameInterval_Rounded(fps, sample) ==
    RoundHalfEven(fps.n * sample.d, fps.d * sample.n)

\* line 102: int(fps / fps_sample)
FrameInterval(fps, sample) == IntDiv(fps, sample)

\* lines 127-131: one entry of the frame index
FrameEntry(saved, count, fps) ==
    [filename |-> FrameFilename(saved, count, fps),
     timestamp |-> Rat(count * fps.d, fps.n),
     frame_number |-> count]

\* A faulty variant of EF_CannotOpen: the output directory is made before the check.
EF_CannotOpen_Mkdir ==
    /\ pc = "ef_open"
    /\ ~source.opens
    /\ dirs' = [dirs EXCEPT ![video_name].exists = TRUE]
    /\ frames' = << >>
    /\ pc' = "ef_ret"
    /\ trace' = trace \o << Ev("cannot_open", "extract_frames", video_name),
                             Ev("return", "extract_frames", video_name) >>
    /\ UNCHANGED << i, source, fps_sample, ef_locals, audio_file, transcript,
                    results, wav, txt, json, summary_file, raised, ffmpeg_runs,
                    summary_writes, calls >>

\* lines 90-93: the source cannot be opened for decoding
EF_CannotOpen ==
    /\ pc = "ef_open"
    /\ ~source.opens
    /\ frames' = << >>
    /\ pc' = "ef_ret"
    /\ trace' = trace \o << Ev("cannot_open", "extract_frames", video_name),
                             Ev("return", "extract_frames", video_name) >>
    /\ UNCHANGED << i, source, fps_sample, ef_locals, audio_file, transcript,
                    results, files, raised, ffmpeg_runs, summary_writes, calls >>

\* lines 95-97 with fps = 0: the float division raises ZeroDivisionError
EF_ZeroFps ==
    /\ pc = "ef_open"
    /\ source.opens
    /\ source.fps.n = 0
    /\ Raise("ZeroDivisionError", "extract_frames", 97)
    /\ cap' = [fps |-> source.fps, total_frames |-> source.frames,
               left |-> source.frames]
    /\ UNCHANGED << i, source, fps_sample, duration, frame_interval,
                    frame_count, saved_count, extracted_frames, main_locals,
                    files, ffmpeg_runs, summary_writes, calls >>

\* lines 95-108: properties read, interval computed, directory made
EF_Opened ==
    /\ pc = "ef_open"
    /\ source.opens
    /\ source.fps.n # 0
    /\ cap' = [fps |-> source.fps, total_frames |-> source.frames,
               left |-> source.frames]
    /\ duration' = Duration(source.frames, source.fps)
    /\ frame_interval' = FrameInterval(source.fps, fps_sample)
    /\ dirs' = [dirs EXCEPT ![video_name].exists = TRUE]
    /\ frame_count' = 0
    /\ saved_count' = 0
    /\ extracted_frames' = << >>
    /\ pc' = "ef_read"
    /\ UNCHANGED << i, source, fps_sample, main_locals, wav, txt, json,
                    summary_file, raised, trace, ffmpeg_runs, summary_writes,
                    calls >>

\* lines 111-113: cap.read() has no more frames
EF_ReadEnd ==
    /\ pc = "ef_read"
    /\ cap.left = 0
    /\ pc' = "ef_finish"
    /\ UNCHANGED << i, source, fps_sample, ef_locals, main_locals, files,
                    raised, trace, ffmpeg_runs, summary_writes, calls >>

\* line 115 with frame_interval = 0: the modulo raises ZeroDivisionError
EF_ZeroInterval ==
    /\ pc = "ef_read"
    /\ cap.left > 0
    /\ frame_interval = 0
    /\ Raise("ZeroDivisionError", "extract_frames", 115)
    /\ UNCHANGED << i, source, fps_sample, ef_locals, main_locals, files,
                    ffmpeg_runs, summary_writes, calls >>

\* line 115
KeepFrame(count, interval) == count % interval = 0

\* lines 115-137: a frame that is kept
EF_Keep ==
    /\ pc = "ef_read"
    /\ cap.left > 0
    /\ frame_interval # 0
    /\ KeepFrame(frame_count, frame_interval)
    /\ LET e == FrameEntry(saved_count, frame_count, cap.fps)
       IN  /\ dirs' = [dirs EXCEPT ![video_name].jpgs = @ \cup {e.filename}]
           /\ extracted_frames' = Append(extracted_frames, e)
    /\ saved_count' = saved_count + 1
    /\ frame_count' = frame_count + 1
    /\ cap' = [cap EXCEPT !.left = @ - 1]
    /\ UNCHANGED << pc, i, source, fps_sample, duration, frame_interval,
                    main_locals, wav, txt, json, summary_file, raised, trace,
                    ffmpeg_runs, summary_writes, calls >>

\* lines 115, 137: a frame that is discarded
EF_Skip ==
    /\ pc = "ef_read"
    /\ cap.left > 0
    /\ frame_interval # 0
    /\ ~KeepFrame(frame_count, frame_interval)
    /\ frame_count' = frame_count + 1
    /\ cap' = [cap EXCEPT !.left = @ - 1]
    /\ UNCHANGED << pc, i, source, fps_sample, duration, frame_interval,
                    saved_count, extracted_frames, main_locals, files, raised,
                    trace, ffmpeg_runs, summary_writes, calls >>

\* lines 142-145: what json.dump writes to frame_index.json
WriteIndex(dir, entries) == [dir EXCEPT !.index = File(entries)]

\* lines 139-147: release, write the index, return the list
EF_Finish ==
    /\ pc = "ef_finish"
    /\ cap' = None
    /\ dirs' = [dirs EXCEPT ![video_name] = WriteIndex(@, extracted_frames)]
    /\ frames' = extracted_frames
    /\ pc' = "ef_ret"
    /\ trace' = Append(trace, Ev("return", "extract_frames", video_name))
    /\ UNCHANGED << i, source, fps_sample, duration, frame_interval,
                    frame_count, saved_count, extracted_frames, audio_file,
                    transcript, results, wav, txt, json, summary_file, raised,
                    ffmpeg_runs, summary_writes, calls >>

extract_frames ==
    \/ EF_CannotOpen
    \/ EF_ZeroFps
    \/ EF_Opened
    \/ EF_ReadEnd
    \/ EF_ZeroInterval
    \/ EF_Keep
    \/ EF_Skip
    \/ EF_Finish

(***************************************************************************)
(* extract_audio (lines 54-80).  A WAV file's content is [ver, complete]:   *)
(* ver names the transcoder run that wrote it (0: a run before this         *)
(* model's start).                                                          *)
(***************************************************************************)
\* A faulty variant of AudioExists: the check is dropped and the WAV always remade.
AudioExists_Never(s) == FALSE

\* line 59: audio_file.exists()
AudioExists(s) == wav[s].exists

\* line 57: output_path / f"{video_path.stem}.wav"
AudioPath(s) == [stem |-> s, suffix |-> ".wav"]

\* lines 59-61: the WAV is already there and is reused
EA_Exists ==
    /\ pc = "ea"
    /\ AudioExists(stem)
    /\ audio_file' = AudioPath(stem)
    /\ pc' = "ea_ret"
    /\ trace' = trace \o << Ev("reused", "extract_audio", video_name),
                             Ev("return", "extract_audio", video_name) >>
    /\ UNCHANGED << i, source, fps_sample, ef_locals, frames, transcript,
                    results, files, raised, ffmpeg_runs, summary_writes, calls >>

\* lines 63-80: the transcoder exits 0 and has written the WAV
EA_TranscodeOk ==
    /\ pc = "ea"
    /\ ~AudioExists(stem)
    /\ ffmpeg_runs' = [ffmpeg_runs EXCEPT ![stem] = @ + 1]
    /\ wav' = [wav EXCEPT ![stem] =
                  File([ver |-> ffmpeg_runs[stem] + 1, complete |-> TRUE])]
    /\ audio_file' = AudioPath(stem)
    /\ pc' = "ea_ret"
    /\ trace' = trace \o << Ev("exit0", "ffmpeg", video_name),
                             Ev("return", "extract_audio", video_name) >>
    /\ UNCHANGED << i, source, fps_sample, ef_locals, frames, transcript,
                    results, dirs, txt, json, summary_file, raised,
                    summary_writes, calls >>

\* lines 63-78: the transcoder exits non-zero; it may leave a partial output
EA_TranscodeFail(leaves) ==
    /\ pc = "ea"
    /\ ~AudioExists(stem)
    /\ ffmpeg_runs' = [ffmpeg_runs EXCEPT ![stem] = @ + 1]
    /\ wav' = [wav EXCEPT ![stem] =
                  IF leaves
                  THEN File([ver |-> ffmpeg_runs[stem] + 1, complete |-> FALSE])
                  ELSE Absent]
    /\ audio_file' = None
    /\ pc' = "ea_ret"
    /\ trace' = trace \o << Ev("exit1", "ffmpeg", video_name),
                             Ev("return", "extract_audio", video_name) >>
    /\ UNCHANGED << i, source, fps_sample, ef_locals, frames, transcript,
                    results, dirs, txt, json, summary_file, raised,
                    summary_writes, calls >>

extract_audio ==
    \/ EA_Exists
    \/ EA_TranscodeOk
    \/ \E leaves \in BOOLEAN : EA_TranscodeFail(leaves)

(***************************************************************************)
(* transcribe_audio (lines 150-196).  A text is a sequence of characters;   *)
(* the text file's content is the sequence of pieces written to it, each    *)
(* character of a segment's text and each "\n" a piece of its own.  Times   *)
(* are rationals (seconds).                                                 *)
(***************************************************************************)
IsSpace(c) == c \in {" ", "\n"}

RECURSIVE LStrip(_)
LStrip(t) == IF t # << >> /\ IsSpace(Head(t)) THEN LStrip(Tail(t)) ELSE t

RECURSIVE RStrip(_)
RStrip(t) ==
    IF t # << >> /\ IsSpace(t[Len(t)])
    THEN RStrip(SubSeq(t, 1, Len(t) - 1))
    ELSE t

\* str.strip()
Strip(t) == RStrip(LStrip(t))

\* int(x) for x >= 0
Trunc(x) == x.n \div x.d

\* str(timedelta(seconds=s)) for s below one day: H:MM:SS
TimeDelta(s) == [h |-> s \div 3600, m |-> (s % 3600) \div 60, s |-> s % 60]

\* lines 172-175: what one segment adds to the text file
SegmentLine(seg) ==
    LET text == Strip(seg.text)
    IN  << [start |-> TimeDelta(Trunc(seg.start)),
            end |-> TimeDelta(Trunc(seg.end))] >>
            \o [k \in 1..Len(text) |-> [ch |-> text[k]]]
            \o << [ch |-> "\n"] >>

RECURSIVE SegmentLines(_)
SegmentLines(segs) ==
    IF segs = << >> THEN << >>
    ELSE SegmentLine(Head(segs)) \o SegmentLines(Tail(segs))

\* A faulty variant of TranscriptText: the header is not written.
TranscriptText_NoHeader(s, result) == SegmentLines(result.segments)

\* lines 168-175: the text file
TranscriptText(s, result) ==
    << [header |-> s], [ch |-> "\n"], [ch |-> "\n"] >>
        \o SegmentLines(result.segments)

\* lines 178-190: the JSON file
TranscriptJson(result) ==
    [text |-> result.text,
     segments |-> [k \in 1..Len(result.segments) |->
                      [start |-> result.segments[k].start,
                       end |-> result.segments[k].end,
                       text |-> Strip(result.segments[k].text)]]]

\* A faulty variant of TA_Raise: the exception is caught in transcribe_audio, which
\* returns an empty result.
TA_Raise_Caught(line) ==
    /\ pc = "ta"
    /\ transcript' = [text |-> << >>, segments |-> << >>]
    /\ pc' = "ta_ret"
    /\ trace' = Append(trace, Ev("raise", "transcribe_audio", video_name))
    /\ UNCHANGED << i, source, fps_sample, ef_locals, frames, audio_file,
                    results, files, raised, ffmpeg_runs, summary_writes, calls >>

\* lines 158-165: model loading, WAV loading or inference raises
TA_Raise(line) ==
    /\ pc = "ta"
    /\ Raise("Exception", "transcribe_audio", line)
    /\ UNCHANGED << i, source, fps_sample, ef_locals, main_locals, files,
                    ffmpeg_runs, summary_writes, calls >>

\* lines 158-196: inference gives result; both files are written
TA_Write(result) ==
    /\ pc = "ta"
    /\ txt' = [txt EXCEPT ![audio_file.stem] =
                  File(TranscriptText(audio_file.stem, result))]
    /\ json' = [json EXCEPT ![audio_file.stem] = File(TranscriptJson(result))]
    /\ transcript' = result
    /\ pc' = "ta_ret"
    /\ trace' = Append(trace, Ev("return", "transcribe_audio", video_name))
    /\ UNCHANGED << i, source, fps_sample, ef_locals, frames, audio_file,
                    results, dirs, wav, summary_file, raised, ffmpeg_runs,
                    summary_writes, calls >>

transcribe_audio(Rs) ==
    \/ \E line \in {158, 162, 165} : TA_Raise(line)
    \/ \E result \in Rs : TA_Write(result)

(***************************************************************************)
(* main (lines 199-263).                                                    *)
(***************************************************************************)
\* lines 235-241: the summary record of a transcribed job
SummaryOk(info, fr, out, tr) ==
    [title |-> info.title,
     frames_extracted |-> Len(fr),
     frames_dir |-> out,
     transcript_length |-> Len(tr.text),
     segments_count |-> Len(tr.segments)]

\* A faulty variant of SummaryNoAudio: the error is left out of the record.
SummaryNoAudio_NoError(info, fr, out) ==
    [title |-> info.title,
     frames_extracted |-> Len(fr),
     frames_dir |-> out,
     transcript_length |-> 0,
     segments_count |-> 0]

\* lines 243-250: the summary record of a job without audio
SummaryNoAudio(info, fr, out) ==
    [title |-> info.title,
     frames_extracted |-> Len(fr),
     frames_dir |-> out,
     transcript_length |-> 0,
     segments_count |-> 0,
     error |-> "Audio extraction failed"]

\* results[video_name] = record
Store(res, name, record) == (name :> record) @@ res

\* A faulty variant of M_NotFound: the skipped job gets a record without frames.
M_NotFound_Recorded ==
    /\ pc = "loop"
    /\ i <= NumVideos
    /\ source' = Absent
    /\ results' = Store(results, video_name,
                        SummaryNoAudio(video_info, << >>, video_name))
    /\ i' = i + 1
    /\ trace' = Append(trace, Ev("not_found", "main", video_name))
    /\ UNCHANGED << pc, fps_sample, ef_locals, frames, audio_file, transcript,
                    files, raised, ffmpeg_runs, summary_writes, calls >>

\* lines 218-220: the source file is not there; the job is skipped
M_NotFound ==
    /\ pc = "loop"
    /\ i <= NumVideos
    /\ source' = Absent
    /\ i' = i + 1
    /\ trace' = Append(trace, Ev("not_found", "main", video_name))
    /\ UNCHANGED << pc, fps_sample, ef_locals, main_locals, files, raised,
                    ffmpeg_runs, summary_writes, calls >>

\* lines 216-226: the source file is there; extract_frames is called
M_Found(video) ==
    /\ pc = "loop"
    /\ i <= NumVideos
    /\ source' = video
    /\ fps_sample' = Rat(1, 2)
    /\ pc' = "ef_open"
    /\ trace' = Append(trace, Ev("call", "extract_frames", video_name))
    /\ UNCHANGED << i, ef_locals, main_locals, files, raised, ffmpeg_runs,
                    summary_writes, calls >>

\* lines 226-229: extract_frames has returned; extract_audio is called
M_AfterFrames ==
    /\ pc = "ef_ret"
    /\ pc' = "ea"
    /\ cap' = None
    /\ duration' = None
    /\ frame_interval' = 0
    /\ frame_count' = 0
    /\ saved_count' = 0
    /\ extracted_frames' = << >>
    /\ trace' = Append(trace, Ev("call", "extract_audio", video_name))
    /\ UNCHANGED << i, source, fps_sample, main_locals, files, raised,
                    ffmpeg_runs, summary_writes, calls >>

\* A faulty variant of HaveAudio: only the file is looked for, not the result.
HaveAudio_FileOnly == AudioExists(stem)

\* line 231: audio_file and audio_file.exists()
HaveAudio == audio_file # None /\ AudioExists(audio_file.stem)

\* lines 231-233: transcribe_audio is called
M_Transcribe ==
    /\ pc = "ea_ret"
    /\ HaveAudio
    /\ pc' = "ta"
    /\ trace' = Append(trace, Ev("call", "transcribe_audio", video_name))
    /\ UNCHANGED << i, source, fps_sample, ef_locals, main_locals, files,
                    raised, ffmpeg_runs, summary_writes, calls >>

\* lines 233-241: the job's record, with its transcript
M_Record ==
    /\ pc = "ta_ret"
    /\ results' = Store(results, video_name,
                        SummaryOk(video_info, frames, video_name, transcript))
    /\ i' = i + 1
    /\ pc' = "loop"
    /\ UNCHANGED << source, fps_sample, ef_locals, frames, audio_file,
                    transcript, files, raised, trace, ffmpeg_runs,
                    summary_writes, calls >>

\* lines 242-250: the job's record, audio extraction having failed
M_NoAudio ==
    /\ pc = "ea_ret"
    /\ ~HaveAudio
    /\ results' = Store(results, video_name,
                        SummaryNoAudio(video_info, frames, video_name))
    /\ i' = i + 1
    /\ pc' = "loop"
    /\ UNCHANGED << source, fps_sample, ef_locals, frames, audio_file,
                    transcript, files, raised, trace, ffmpeg_runs,
                    summary_writes, calls >>

\* lines 252-258: the loop is over; the summary is written
M_Summary ==
    /\ pc = "loop"
    /\ i = NumVideos + 1
    /\ summary_file' = File(results)
    /\ summary_writes' = summary_writes + 1
    /\ pc' = "done"
    /\ trace' = Append(trace, Ev("write", "main", "analysis_summary.json"))
    /\ UNCHANGED << i, source, fps_sample, ef_locals, main_locals, dirs, wav,
                    txt, json, raised, ffmpeg_runs, calls >>

(***************************************************************************)
(* The inputs: what the decoder finds in a source, what inference returns.  *)
(***************************************************************************)
\* A source file: whether the decoder opens it, the frame rate it reports
\* and the frames it holds (the frame count it reports is that number).
Video(opens, fps, n) ==
    [exists |-> TRUE, opens |-> opens, fps |-> fps, frames |-> n]

Unopenable == Video(FALSE, Rat(0, 1), 0)

\* The sources of a run of main: one that cannot be opened, one with frame
\* rate 0, one slower than the sampling rate, one without frames, one with.
MainVideos ==
    { Unopenable,
      Video(TRUE, Rat(0, 1), 1),
      Video(TRUE, Rat(1, 4), 1),
      Video(TRUE, Rat(1, 1), 0),
      Video(TRUE, Rat(1, 1), MaxFrames - 1) }

\* The sources of the calls of extract_frames taken alone; the last is the
\* 10-second 30fps source.
FrameRates == { Rat(0, 1), Rat(1, 4), Rat(1, 1), Rat(7, 4) }
FrameVideos ==
    { Video(TRUE, f, n) : f \in FrameRates, n \in 0..MaxFrames }
        \cup { Unopenable, Video(TRUE, Rat(30, 1), 300) }
SampleRates == { Rat(1, 2), Rat(1, 1) }

SegA == [start |-> Rat(1, 2), end |-> Rat(19, 10), text |-> << " ", "a", " " >>]
SegB == [start |-> Rat(612, 10), end |-> Rat(3725, 1), text |-> << "a", "\n", "b" >>]

RECURSIVE Concat(_)
Concat(segs) ==
    IF segs = << >> THEN << >> ELSE Head(segs).text \o Concat(Tail(segs))

\* A result of model.transcribe: the segments and their joined text.
Result(segs) == [text |-> Concat(segs), segments |-> segs]

SegSeqs(n) == UNION { [1..k -> {SegA, SegB}] : k \in 0..n }
MainResults == { Result(<< >>), Result(<< SegA >>) }
WhisperResults == { Result(segs) : segs \in SegSeqs(MaxSegs) }

(***************************************************************************)
(* A run of main, from the state after line 209.  WAV files of an earlier   *)
(* run may be there.                                                        *)
(***************************************************************************)
InitLocals ==
    /\ source = Absent
    /\ fps_sample = Rat(1, 2)
    /\ cap = None
    /\ duration = None
    /\ frame_interval = 0
    /\ frame_count = 0
    /\ saved_count = 0
    /\ extracted_frames = << >>
    /\ frames = << >>
    /\ audio_file = None
    /\ transcript = None
    /\ results = << >>
    /\ raised = None
    /\ trace = << >>
    /\ summary_writes = 0
    /\ calls = 0

InitFiles ==
    /\ dirs = [n \in Names |-> [exists |-> FALSE, jpgs |-> {}, index |-> Absent]]
    /\ txt = [s \in Stems |-> Absent]
    /\ json = [s \in Stems |-> Absent]
    /\ summary_file = Absent
    /\ ffmpeg_runs = [s \in Stems |-> 0]

OldWav == File([ver |-> 0, complete |-> TRUE])

Init ==
    /\ pc = "loop"
    /\ i = 1
    /\ InitLocals
    /\ InitFiles
    /\ wav \in [Stems -> {Absent, OldWav}]

Next ==
    \/ M_NotFound
    \/ \E video \in MainVideos : M_Found(video)
    \/ extract_frames
    \/ M_AfterFrames
    \/ extract_audio
    \/ M_Transcribe
    \/ transcribe_audio(MainResults)
    \/ M_Record
    \/ M_NoAudio
    \/ M_Summary

Spec == Init /\ [][Next]_vars

(***************************************************************************)
(* extract_frames taken alone: calls into one output directory, each of a   *)
(* source and a sampling rate of its own, each call a process of its own.   *)
(***************************************************************************)
H_CallFrames(video, rate) ==
    /\ pc \in {"idle", "ef_ret", "raised"}
    /\ calls < MaxCalls
    /\ calls' = calls + 1
    /\ source' = video
    /\ fps_sample' = rate
    /\ cap' = None
    /\ duration' = None
    /\ frame_interval' = 0
    /\ frame_count' = 0
    /\ saved_count' = 0
    /\ extracted_frames' = << >>
    /\ frames' = << >>
    /\ raised' = None
    /\ trace' = << Ev("call", "extract_frames", video_name) >>
    /\ pc' = "ef_open"
    /\ UNCHANGED << i, audio_file, transcript, results, files, ffmpeg_runs,
                    summary_writes >>

InitIdle ==
    /\ pc = "idle"
    /\ i = 1
    /\ InitLocals
    /\ InitFiles

InitFrames ==
    /\ InitIdle
    /\ wav = [s \in Stems |-> Absent]

NextFrames ==
    \/ \E video \in FrameVideos, rate \in SampleRates : H_CallFrames(video, rate)
    \/ extract_frames

SpecFrames == InitFrames /\ [][NextFrames]_vars

(***************************************************************************)
(* extract_audio taken alone: calls for any of the sources, one after the   *)
(* other, over the same transcripts directory.                              *)
(***************************************************************************)
H_CallAudio(k) ==
    /\ pc \in {"idle", "ea_ret"}
    /\ calls < MaxCalls + 1
    /\ calls' = calls + 1
    /\ i' = k
    /\ audio_file' = None
    /\ trace' = << Ev("call", "extract_audio", VIDEOS[k].name) >>
    /\ pc' = "ea"
    /\ UNCHANGED << source, fps_sample, ef_locals, frames, transcript, results,
                    files, raised, ffmpeg_runs, summary_writes >>

InitAudio ==
    /\ InitIdle
    /\ wav \in [Stems -> {Absent, OldWav}]

NextAudio ==
    \/ \E k \in 1..NumVideos : H_CallAudio(k)
    \/ extract_audio

SpecAudio == InitAudio /\ [][NextAudio]_vars

(***************************************************************************)
(* transcribe_audio taken alone, on the WAV of any of the sources.          *)
(***************************************************************************)
H_CallTranscribe(k) ==
    /\ pc \in {"idle", "ta_ret", "raised"}
    /\ calls < MaxCalls
    /\ calls' = calls + 1
    /\ i' = k
    /\ audio_file' = AudioPath(VIDEOS[k].file.stem)
    /\ transcript' = None
    /\ raised' = None
    /\ trace' = << Ev("call", "transcribe_audio", VIDEOS[k].name) >>
    /\ pc' = "ta"
    /\ UNCHANGED << source, fps_sample, ef_locals, frames, results, files,
                    ffmpeg_runs, summary_writes >>

InitTranscribe ==
    /\ InitIdle
    /\ wav = [s \in Stems |-> OldWav]

NextTranscribe ==
    \/ \E k \in 1..NumVideos : H_CallTranscribe(k)
    \/ transcribe_audio(WhisperResults)

SpecTranscribe == InitTranscribe /\ [][NextTranscribe]_vars

(***************************************************************************)
(* What a state says of the run so far.                                     *)
(***************************************************************************)
Jobs == 1..NumVideos
NameOf(k) == VIDEOS[k].name

Happened(kind, fn, k) == \E p \in DOMAIN trace : trace[p] = Ev(kind, fn, NameOf(k))

\* The iteration of job k is over: main is at a later job or past the loop.
Finished(k) == i > k

\* The run was stopped by an exception raised while main was at job k.
StoppedAt(k) == pc = "raised" /\ i = k

\* res holds the record of a job without audio.
ErrorEntry(res, k) ==
    /\ NameOf(k) \in DOMAIN res
    /\ "error" \in DOMAIN res[NameOf(k)]
    /\ res[NameOf(k)].error = "Audio extraction failed"
    /\ res[NameOf(k)].transcript_length = 0
    /\ res[NameOf(k)].segments_count = 0

\* No state but the two where the process has ended is without a next step.
GoesOn == pc \notin {"done", "raised"} => ENABLED Next

\* The run was stopped by a ZeroDivisionError in extract_frames.
FramesFault == pc = "raised" /\ raised.fn = "extract_frames"

(***************************************************************************)
(* C1                                                                       *)
(***************************************************************************)
FfmpegFailed(k) == Happened("exit1", "ffmpeg", k)

C1_Handled(k) ==
    /\ (i = k /\ pc = "ea_ret" => audio_file = None)
    /\ ~Happened("call", "transcribe_audio", k)
    /\ (Finished(k) => ErrorEntry(results, k))
    /\ (pc = "done" => summary_file.exists /\ ErrorEntry(summary_file.content, k))

NotFound(k) == Happened("not_found", "main", k)

NoStage(k) ==
    \A p \in DOMAIN trace : trace[p].job = NameOf(k) => trace[p].kind = "not_found"

\* C2 as claimed: for every job whose source file is missing the run does
\* not crash, the remaining jobs are processed, and the summary written at
\* the end of main holds an entry for that job with frames_extracted = 0.
C2_Original ==
    \A k \in Jobs :
        NotFound(k) =>
            /\ ~StoppedAt(k)
            /\ GoesOn
            /\ pc = "done" =>
                  /\ NameOf(k) \in DOMAIN summary_file.content
                  /\ summary_file.content[NameOf(k)].frames_extracted = 0

\* C2 as amended: for every job whose source file is missing, no stage runs
\* for that job, nothing is raised at it and main goes on to the next job;
\* no entry is recorded for it, and the summary written at the end of main
\* holds no entry for that job.
C2_Amended ==
    \A k \in Jobs :
        NotFound(k) =>
            /\ NoStage(k)
            /\ Finished(k)
            /\ GoesOn
            /\ NameOf(k) \notin DOMAIN results
            /\ pc = "done" =>
                  /\ summary_file.exists
                  /\ NameOf(k) \notin DOMAIN summary_file.content

\* A run that ends with the summary written, in which a job that is not the
\* last was skipped and the next job has its entry.
C2_Witness ==
    /\ pc = "done"
    /\ \E k \in Jobs :
          /\ k < NumVideos
          /\ NotFound(k)
          /\ NameOf(k) \notin DOMAIN summary_file.content
          /\ NameOf(k + 1) \in DOMAIN summary_file.content

(***************************************************************************)
(* C8                                                                       *)
(***************************************************************************)
TranscriberFailed(k) == Happened("raise", "transcribe_audio", k)

C8_Stopped ==
    \A k \in Jobs :
        TranscriberFailed(k) =>
            /\ pc = "raised"
            /\ raised.fn = "transcribe_audio"
            /\ i = k
            /\ trace[Len(trace)] = Ev("raise", "transcribe_audio", NameOf(k))
            /\ \A later \in Jobs : later > k => ~Happened("call", "extract_frames", later)
                                               /\ ~NotFound(later)
            /\ NameOf(k) \notin DOMAIN results
            /\ summary_writes = 0
            /\ ~summary_file.exists

\* C8: a failure of model loading, WAV loading or inference in
\* transcribe_audio is not caught.  Once it is raised the run has stopped
\* and takes no further step: no later job is processed, no entry is
\* recorded for the failing job, and the summary file is not written, so the
\* entries of the earlier jobs are lost.
C8_Uncaught == []C8_Stopped /\ [][pc # "raised"]_vars

\* The transcriber fails at the second job, the first job's entry recorded.
C8_Witness ==
    /\ TranscriberFailed(2)
    /\ NameOf(1) \in DOMAIN results
    /\ ~summary_file.exists

(***************************************************************************)
(* C9                                                                       *)
(***************************************************************************)
CannotOpen(k) == Happened("cannot_open", "extract_frames", k)

AudioReturned(k) == Happened("reused", "extract_audio", k) \/ Happened("exit0", "ffmpeg", k)

C9_Continues(k) ==
    /\ ~dirs[NameOf(k)].exists
    /\ ~dirs[NameOf(k)].index.exists
    /\ dirs[NameOf(k)].jpgs = {}
    /\ ~Happened("raise", "extract_frames", k)
    /\ (i = k /\ pc = "ef_ret" => frames = << >>)
    /\ (Finished(k) => Happened("return", "extract_audio", k))
    /\ (Finished(k) /\ AudioReturned(k) => Happened("return", "transcribe_audio", k))
    /\ (Finished(k) =>
           /\ NameOf(k) \in DOMAIN results
           /\ results[NameOf(k)].frames_extracted = 0)
    /\ GoesOn

C10_Graceful ==
    source.exists /\ source.opens /\ (source.fps.n = 0 \/ source.frames = 0) =>
        /\ ~(FramesFault /\ raised.line = 97)
        /\ pc = "ef_ret" => duration # None /\ duration.n = 0

(***************************************************************************)
(* C7                                                                       *)
(***************************************************************************)
IsCall(p, fn, k) == trace[p] = Ev("call", fn, NameOf(k))

\* The stage called at p has ended before q.
EndedBefore(p, q) ==
    \E e \in (p + 1)..(q - 1) :
        trace[e].fn = trace[p].fn /\ trace[e].job = trace[p].job
            /\ trace[e].kind \in {"return", "raise"}

C7_Order ==
    \A q \in DOMAIN trace : \A k \in Jobs :
        \* the frame sampler has finished when the audio extractor starts
        /\ IsCall(q, "extract_audio", k) =>
              q > 1 /\ trace[q - 1] = Ev("return", "extract_frames", NameOf(k))
        \* the audio extractor has returned a result when the transcriber starts
        /\ IsCall(q, "transcribe_audio", k) =>
              /\ q > 2
              /\ trace[q - 1] = Ev("return", "extract_audio", NameOf(k))
              /\ trace[q - 2] \in {Ev("reused", "extract_audio", NameOf(k)),
                                  Ev("exit0", "ffmpeg", NameOf(k))}
        \* a job starts after every stage of every earlier job has finished,
        \* and nothing of a later job comes before it
        /\ IsCall(q, "extract_frames", k) =>
              \A p \in 1..(q - 1) :
                  /\ \E j \in 1..(k - 1) : trace[p].job = NameOf(j)
                  /\ trace[p].kind = "call" => EndedBefore(p, q)
        \* every stage of a job comes after the start of its frame sampler
        /\ trace[q].job = NameOf(k) /\ trace[q].kind # "not_found" =>
              \E p \in 1..q : IsCall(p, "extract_frames", k)

C7_WriteLast ==
    /\ \A q \in DOMAIN trace :
          trace[q].kind = "write" => q = Len(trace) /\ pc = "done" /\ i = NumVideos + 1
    /\ summary_writes = Cardinality({q \in DOMAIN trace : trace[q].kind = "write"})

Completed == pc = "ef_ret" /\ source.opens

\* fps_sample < fps
SlowerThanSource == fps_sample.n * source.fps.d < source.fps.n * fps_sample.d

CeilDiv(a, b) == (a + b - 1) \div b

FrameNumbers == [m \in 1..Len(frames) |-> frames[m].frame_number]

\* The 10-second 30fps source sampled at 0.5 frames per second.
Scenario == source = Video(TRUE, Rat(30, 1), 300) /\ fps_sample = Rat(1, 2)

ScenarioResult ==
    Scenario => frame_interval = 60 /\ FrameNumbers = << 0, 60, 120, 180, 240 >>

\* C4 as claimed: for a source of N = D*F decoded frames sampled at R < F,
\* extract_frames uses the stride round(F/R) and saves floor(N / round(F/R))
\* frames; the 10-second 30fps source at 0.5 gives stride 60 and the frames
\* 0, 60, 120, 180, 240.
C4_Original ==
    Completed /\ SlowerThanSource /\ source.frames > 0 =>
        LET stride == RoundHalfEven(source.fps.n * fps_sample.d,
                                    source.fps.d * fps_sample.n)
        IN  /\ frame_interval = stride
            /\ Len(frames) = source.frames \div stride
            /\ ScenarioResult

\* C4 as amended: for a source of N = D*F decoded frames sampled at R < F,
\* extract_frames uses the stride int(F/R), the quotient truncated, and saves
\* the frames 0, stride, 2*stride, ... below N, which are ceil(N / stride)
\* frames; the 10-second 30fps source at 0.5 gives stride 60 and the frames
\* 0, 60, 120, 180, 240.
C4_Amended ==
    Completed /\ SlowerThanSource =>
        LET stride == (source.fps.n * fps_sample.d) \div (source.fps.d * fps_sample.n)
        IN  /\ frame_interval = stride
            /\ Len(frames) = CeilDiv(source.frames, stride)
            /\ \A m \in 1..Len(frames) : frames[m].frame_number = (m - 1) * stride
            /\ ScenarioResult

\* The scenario has run to its end.
C4_Witness == Completed /\ Scenario /\ Len(frames) = 5

\* C5: whenever extract_frames has completed, the output directory holds
\* exactly the JPEG files listed in its frame index, also after earlier
\* completed runs into the same directory with another source or rate.
C5_DirMatchesIndex ==
    Completed =>
        LET dir == dirs[video_name]
        IN  /\ dir.index.exists
            /\ dir.jpgs = {dir.index.content[m].filename :
                              m \in 1..Len(dir.index.content)}
            /\ Cardinality(dir.jpgs) = Len(dir.index.content)

(***************************************************************************)
(* C3: extract_audio taken alone (SpecAudio).                               *)
(***************************************************************************)
\* C3: whenever a WAV file is at the output path of a source, a call of
\* extract_audio for that source does not run the transcoder, leaves the
\* file as it is and returns its path; no step changes an existing WAV or
\* runs the transcoder for it, so after the first successful extraction the
\* transcoder is never run again for that source.
C3_Idempotent ==
    [][ /\ \A s \in Stems :
              wav[s].exists => wav'[s] = wav[s] /\ ffmpeg_runs'[s] = ffmpeg_runs[s]
        /\ pc = "ea" /\ wav[stem].exists =>
              pc' = "ea_ret" /\ audio_file' = AudioPath(stem) ]_vars

\* Two calls for the same source, nothing there at first: the transcoder ran
\* once, in the first, and the second returned the file the first had made.
C3_Witness ==
    /\ pc = "ea_ret"
    /\ calls = 2
    /\ audio_file = AudioPath(stem)
    /\ trace[Len(trace) - 1] = Ev("reused", "extract_audio", video_name)
    /\ ffmpeg_runs[stem] = 1
    /\ wav[stem] = File([ver |-> 1, complete |-> TRUE])
    /\ \A s \in Stems \ {stem} : ffmpeg_runs[s] = 0 /\ ~wav[s].exists

(***************************************************************************)
(* C6: transcribe_audio taken alone (SpecTranscribe).                       *)
(***************************************************************************)
IsNewline(piece) == "ch" \in DOMAIN piece /\ piece.ch = "\n"

\* The lines of a text file: its line terminators.
LineCount(content) == Cardinality({p \in DOMAIN content : IsNewline(content[p])})

\* The [start - end] stamps of a text file: one per segment written.
StampCount(content) == Cardinality({p \in DOMAIN content : "start" \in DOMAIN content[p]})

Breaks(text) == Cardinality({p \in DOMAIN text : text[p] = "\n"})

RECURSIVE BreaksIn(_)
BreaksIn(segs) ==
    IF segs = << >> THEN 0 ELSE Breaks(Head(segs).text) + BreaksIn(Tail(segs))

Written == pc = "ta_ret"

\* C6 as claimed: the text file written by a call of transcribe_audio has as
\* many lines as the JSON file written by the same call has segments.
C6_Original ==
    Written =>
        LineCount(txt[audio_file.stem].content)
            = Len(json[audio_file.stem].content.segments)

\* C6 as amended: the text file starts with a header line and an empty line
\* and then holds one stamped entry per segment of the JSON file; it has two
\* lines more than the JSON file has segments, and one more for every line
\* break inside a segment's stripped text.
C6_Amended ==
    Written =>
        LET content == txt[audio_file.stem].content
            segments == json[audio_file.stem].content.segments
        IN  /\ Len(content) >= 3
            /\ "header" \in DOMAIN content[1]
            /\ IsNewline(content[2]) /\ IsNewline(content[3])
            /\ StampCount(content) = Len(segments)
            /\ LineCount(content) = 2 + Len(segments) + BreaksIn(segments)

\* A result of two segments, none with a line break inside: four lines.
C6_Witness ==
    /\ Written
    /\ Len(json[audio_file.stem].content.segments) = 2
    /\ BreaksIn(json[audio_file.stem].content.segments) = 0
    /\ LineCount(txt[audio_file.stem].content) = 4

=============================================================================
